---------------------------- MODULE Spec2Model ----------------------------
(***************************************************************************)
(* Model of src/app3.py: the ESG query application.                        *)
(*                                                                         *)
(*   load_data                 -> the module-level globals df, years,      *)
(*                                rating_columns, quant_columns,           *)
(*                                company_list                             *)
(*   get_company_by_selection  -> the record resolver                      *)
(*   generate_esg_analysis     -> the metrics engine and the tier/cycle    *)
(*                                chosen for the narrative                 *)
(*   generate_pdf_report       -> the three-tier document renderer         *)
(*   display_company_details   -> analysis, render and export of a record  *)
(*   main / __main__           -> the script run and its emergency handler *)
(*                                                                         *)
(* Strings are sequences of one-character strings.  The full-width         *)
(* brackets U+FF08 and U+FF09 of the source are written "(" and ")" here;  *)
(* "<" stands for an opening markup tag that is never closed (the input    *)
(* reportlab's Paragraph refuses to parse).  In the text handed to the     *)
(* renderer "Y" stands for the ideograph U+4E00, "~" for the ideographic   *)
(* comma U+3001, "@" for the bullet U+2022 and "|" for the full-width      *)
(* colon U+FF1A.                                                           *)
(***************************************************************************)
EXTENDS Integers, Sequences, FiniteSets, TLC

VARIABLES
    df,                \* the Dataset: a sequence of Records, in file order
    years,             \* the supported years, a set of integers
    rating_columns,    \* the years that have a rating column
    quant_columns,     \* the years that have a score column
    company_list,      \* the sorted SelectionKey list
    pc,                \* the position of the run
    selected_company,  \* the selection string handed to the resolver
    company_data,      \* the resolved row: an index of df, NoRow or SampleRow
    signals,           \* the st.warning / st.error / st.info signals emitted
    metrics,           \* the values computed by generate_esg_analysis
    faults,            \* the library steps of this run that raise
    render_args,       \* the arguments of generate_pdf_report
    pdf,               \* the outcome of generate_pdf_report
    offered            \* the document handed to st.download_button

vars == <<df, years, rating_columns, quant_columns, company_list, pc,
          selected_company, company_data, signals, metrics, faults,
          render_args, pdf, offered>>

dataset_vars == <<df, years, rating_columns, quant_columns, company_list>>

-----------------------------------------------------------------------------
(* Bounds of the model.                                                    *)

\* the number of supported years modelled (the source has 2009..2020)
NumYears == 3
\* the longest Dataset
MaxRecords == 2
\* the longest free-form selection string
MaxSelLen == 3

\* the last supported year, list(range(2009, 2021))[-1]
LastYear == 2020

-----------------------------------------------------------------------------
(* Strings.                                                                *)

LB == "("
RB == ")"

\* the sentinel entry of the selection control
Sentinel == <<"?">>

\* Python's None where a text is expected: a sequence that is no text
None == <<"None">>

\* the ideograph of the prefixes, the ideographic comma, the bullet, the
\* full-width colon and the newline
Yi == "Y"
Dun == "~"
Bullet == "@"
FwColon == "|"
NL == "\n"

StrUpTo(S, n) == UNION {[1..k -> S] : k \in 0..n}

Min(S) == CHOOSE x \in S : \A y \in S : x <= y

Max(S) == CHOOSE x \in S : \A y \in S : x >= y

\* the code-point order of the characters used
Rank(c) ==
    CASE c = "<" -> 1
      [] c = "?" -> 2
      [] c = "a" -> 3
      [] c = "b" -> 4
      [] c = LB  -> 5
      [] c = RB  -> 6
      [] OTHER   -> 7

\* s < t in Python's string order
RECURSIVE StrLess(_, _)
StrLess(s, t) ==
    IF t = <<>> THEN FALSE
    ELSE IF s = <<>> THEN TRUE
    ELSE IF Rank(Head(s)) # Rank(Head(t)) THEN Rank(Head(s)) < Rank(Head(t))
    ELSE StrLess(Tail(s), Tail(t))

\* q with x inserted before the first element greater than x
RECURSIVE Insert(_, _)
Insert(x, q) ==
    IF q = <<>> THEN <<x>>
    ELSE IF StrLess(x, Head(q)) THEN <<x>> \o q
    ELSE <<Head(q)>> \o Insert(x, Tail(q))

\* Series.sort_values().tolist()
RECURSIVE sort_values(_)
sort_values(q) ==
    IF q = <<>> THEN <<>> ELSE Insert(Head(q), sort_values(Tail(q)))

\* the position of the first c in s at or after position from, 0 if none
FirstIndex(s, c, from) ==
    IF \E i \in from..Len(s) : s[i] = c
    THEN Min({i \in from..Len(s) : s[i] = c})
    ELSE 0

\* re.search(r'(LB)(.*?)(RB)', s): the leftmost LB that has an RB after it,
\* and the shortest text up to an RB
re_search(s) ==
    LET i == FirstIndex(s, LB, 1)
        j == IF i = 0 THEN 0 ELSE FirstIndex(s, RB, i + 1)
    IN  IF i = 0 \/ j = 0
        THEN [matched |-> FALSE, group |-> <<>>]
        ELSE [matched |-> TRUE, group |-> SubSeq(s, i + 1, j - 1)]

\* s.split(LB)[0]
split_first(s) ==
    LET i == FirstIndex(s, LB, 1)
    IN  IF i = 0 THEN s ELSE SubSeq(s, 1, i - 1)

\* the characters str.strip() removes and \\s matches
Whitespace == {" ", NL}

\* s.startswith(p)
StartsWith(s, p) == Len(s) >= Len(p) /\ SubSeq(s, 1, Len(p)) = p

\* old in s
Occurs(s, old) ==
    \E i \in 1..(Len(s) - Len(old) + 1) : SubSeq(s, i, i + Len(old) - 1) = old

\* s with every occurrence of old removed, scanning left to right
RECURSIVE RemoveAll(_, _)
RemoveAll(s, old) ==
    IF s = <<>> THEN <<>>
    ELSE IF StartsWith(s, old)
    THEN RemoveAll(SubSeq(s, Len(old) + 1, Len(s)), old)
    ELSE <<Head(s)>> \o RemoveAll(Tail(s), old)

\* s.replace(old, ''): s itself when old does not occur in it
replace(s, old) == IF Occurs(s, old) THEN RemoveAll(s, old) ELSE s

\* s.split('\n')
RECURSIVE split(_)
split(s) ==
    IF FirstIndex(s, NL, 1) = 0 THEN <<s>>
    ELSE <<SubSeq(s, 1, FirstIndex(s, NL, 1) - 1)>>
             \o split(SubSeq(s, FirstIndex(s, NL, 1) + 1, Len(s)))

\* s.strip()
strip(s) ==
    LET keep == {i \in 1..Len(s) : s[i] \notin Whitespace}
    IN  IF keep = {} THEN <<>> ELSE SubSeq(s, Min(keep), Max(keep))

-----------------------------------------------------------------------------
(* The Dataset.                                                            *)

\* range(2009, 2021), NumYears of them
SupportedYears == (LastYear - NumYears + 1)..LastYear

\* a cell of a score column: a missing value, a text, a text of digits with
\* two dots, or a number kept in tenths
QuantCells ==
    {[kind |-> "nan", tenths |-> 0],
     [kind |-> "text", tenths |-> 0],
     [kind |-> "dotted", tenths |-> 0],
     [kind |-> "num", tenths |-> -10],
     [kind |-> "num", tenths |-> 0],
     [kind |-> "num", tenths |-> 20],
     [kind |-> "num", tenths |-> 47],
     [kind |-> "num", tenths |-> 60]}

DefaultQuant == [kind |-> "num", tenths |-> 47]

\* a cell of a rating column: a rating or a missing value
RatingCells == {"AA", "nan"}

\* df['SelectionKey'] = df[name] + LB + df[code] + RB
SelectionKey(r) == r.name \o <<LB>> \o r.code \o <<RB>>

\* company_list = df['SelectionKey'].sort_values().tolist()
CompanyList(d) == sort_values([i \in 1..Len(d) |-> SelectionKey(d[i])])

NoRow == 0


-----------------------------------------------------------------------------
(* get_company_by_selection.                                               *)

\* the rows of df[df[code] == code]
RowsByCode(code) == {i \in 1..Len(df) : df[i].code = code}

\* the rows of df[df[name] == name]
RowsByName(name) == {i \in 1..Len(df) : df[i].name = name}

\* the rows of df[df['SelectionKey'] == selected_company_name]
RowsByKey(sel) == {i \in 1..Len(df) : SelectionKey(df[i]) = sel}

\* the first lookup as a cascade: the name lookup also runs after a
\* bracketed code that matched nothing
PrimaryRowsCascade(sel) ==
    LET code_match == re_search(sel)
        by_code == IF code_match.matched
                   THEN RowsByCode(code_match.group) ELSE {}
    IN  IF by_code # {} THEN by_code ELSE RowsByName(split_first(sel))

\* the first lookup: by the bracketed code if the selection has one,
\* otherwise by the text before the first LB
PrimaryRows(sel) ==
    LET code_match == re_search(sel)
    IN  IF code_match.matched
        THEN RowsByCode(code_match.group)
        ELSE RowsByName(split_first(sel))

\* the fallback taken from the selection list: the row of the first entry
\* of company_list
FallbackRowsSorted == {Min(RowsByKey(company_list[1]))}

\* the row returned when nothing matched: df.head(1)
FallbackRows == {1}

\* the whole function: the row returned (company_data.iloc[0] is the first
\* row of the filtered frame) and whether st.warning was called.  The
\* except branch needs a selection that is no string or an empty df, and
\* neither is drawn here.
get_company_by_selection(selected_company_name) ==
    IF selected_company_name = <<>> \/ selected_company_name = Sentinel
    THEN [row |-> NoRow, warning |-> FALSE]
    ELSE LET first  == PrimaryRows(selected_company_name)
             second == IF first = {}
                       THEN RowsByKey(selected_company_name) ELSE first
             final  == IF second = {} THEN FallbackRows ELSE second
         IN  [row |-> Min(final), warning |-> (second = {})]


-----------------------------------------------------------------------------
(* generate_esg_analysis: the metrics and the tier.                        *)

\* the years of S in ascending order (years is a range, iterated in order)
RECURSIVE YearSeq(_)
YearSeq(S) ==
    IF S = {} THEN <<>> ELSE YearSeq(S \ {Max(S)}) \o <<Max(S)>>

RECURSIVE Sum(_)
Sum(q) == IF q = <<>> THEN 0 ELSE Head(q) + Sum(Tail(q))

SeqMax(q) == Max({q[i] : i \in 1..Len(q)})

SeqMin(q) == Min({q[i] : i \in 1..Len(q)})

\* company_data.get(quant_col, 0)
QuantOf(r, year) ==
    IF year \in DOMAIN r.quant THEN r.quant[year]
    ELSE [kind |-> "num", tenths |-> 0]

\* company_data.get(rating_col, no-rating text)
RatingOf(r, year) ==
    IF year \in DOMAIN r.rating THEN r.rating[year] ELSE "none"

\* str(quant_val).replace('.','').isdigit(): digits and dots only, so no
\* sign, no "nan", no letters
IsDigitText(cell) ==
    \/ cell.kind = "dotted"
    \/ cell.kind = "num" /\ cell.tenths >= 0

\* int(float(quant_val)) if the text is digits, else 0; float() raises on a
\* text with two dots and the except sets 0; int() drops the fraction
ParseQuant(cell) ==
    IF IsDigitText(cell)
    THEN IF cell.kind = "dotted" THEN 0 ELSE cell.tenths \div 10
    ELSE 0

\* the per-year items of esg_data: a year is kept when it has both a
\* rating column and a score column
EsgData(r) ==
    LET kept == YearSeq({y \in years : y \in rating_columns /\ y \in quant_columns})
    IN  [i \in 1..Len(kept) |->
            [year |-> kept[i],
             rating |-> RatingOf(r, kept[i]),
             quant |-> ParseQuant(QuantOf(r, kept[i]))]]

\* whether a parsed score enters the aggregates: item quant > 0
Counts(q) == q > 0

\* quant_values: the parsed scores that count, in year order
QuantValues(esg_data) ==
    LET all == [i \in 1..Len(esg_data) |-> esg_data[i].quant]
    IN  SelectSeq(all, Counts)

\* the trend of quant_values
Trend(quant_values) ==
    IF Len(quant_values) >= 3
    THEN IF quant_values[Len(quant_values)] > quant_values[1] THEN "Rising"
         ELSE IF quant_values[Len(quant_values)] < quant_values[1] THEN "Falling"
         ELSE "Stable"
    ELSE "Stable"

\* the tier branch with exclusive lower bounds
LevelExclusive(num, den) ==
    IF num > 5 * den THEN [level |-> "Excellent", cycle |-> "6-12"]
    ELSE IF num > 4 * den THEN [level |-> "Good", cycle |-> "12-24"]
    ELSE IF num > 3 * den THEN [level |-> "Moderate", cycle |-> "12-24"]
    ELSE [level |-> "NeedsImprovement", cycle |-> "24-36"]

\* the tier branch: the average is the fraction num/den with den > 0
Level(num, den) ==
    IF num >= 5 * den THEN [level |-> "Excellent", cycle |-> "6-12"]
    ELSE IF num >= 4 * den THEN [level |-> "Good", cycle |-> "12-24"]
    ELSE IF num >= 3 * den THEN [level |-> "Moderate", cycle |-> "12-24"]
    ELSE [level |-> "NeedsImprovement", cycle |-> "24-36"]

\* the aggregates of a non-empty esg_data
Aggregates(esg_data, quant_values) ==
    [avg_num |-> IF quant_values # <<>> THEN Sum(quant_values) ELSE 3,
     avg_den |-> IF quant_values # <<>> THEN Len(quant_values) ELSE 1,
     max_value |-> IF quant_values # <<>> THEN SeqMax(quant_values) ELSE 4,
     min_value |-> IF quant_values # <<>> THEN SeqMin(quant_values) ELSE 2,
     latest_value |-> esg_data[Len(esg_data)].quant,
     latest_year |-> esg_data[Len(esg_data)].year,
     trend |-> Trend(quant_values),
     quant_values |-> quant_values]

\* the values used when esg_data is empty (no year has both columns)
NoDataAggregates ==
    [avg_num |-> 3, avg_den |-> 1, max_value |-> 4, min_value |-> 2,
     latest_value |-> 3, latest_year |-> LastYear, trend |-> "Stable",
     quant_values |-> <<>>]

\* the aggregates with the tier and the cycle of their average
WithLevel(base, tier) ==
    [avg_num |-> base.avg_num, avg_den |-> base.avg_den,
     max_value |-> base.max_value, min_value |-> base.min_value,
     latest_value |-> base.latest_value, latest_year |-> base.latest_year,
     trend |-> base.trend, quant_values |-> base.quant_values,
     level |-> tier.level, cycle |-> tier.cycle]

CoreMetrics(esg_data) ==
    IF Len(esg_data) > 0
    THEN Aggregates(esg_data, QuantValues(esg_data))
    ELSE NoDataAggregates

LevelOf(base) == WithLevel(base, Level(base.avg_num, base.avg_den))

\* the values generate_esg_analysis interpolates into the report of a
\* record (company_data is not None)
generate_esg_analysis(r) == LevelOf(CoreMetrics(EsgData(r)))

-----------------------------------------------------------------------------
(* generate_pdf_report.                                                    *)

\* the library steps of the renderer that may raise for reasons outside the
\* arguments (memory, fonts, layout)
RenderSteps ==
    {"full_setup", "full_elements", "full_build",
     "fb_setup", "fb_elements", "fb_build"}

\* the characters the filter keeps: ideographs, ASCII letters and digits,
\* whitespace and . , ; : ! ? ( ) and the full-width brackets and -
AllowList == {Yi, "a", "b", "1", "2", "3", ".", "-", "?", LB, RB} \cup Whitespace

IsAllowed(c) == c \in AllowList

\* a filter that removes nothing
re_sub_keep(s) == s

\* re.sub(r'[^...]', '', s): the characters outside the allow-list removed
re_sub(s) == SelectSeq(s, IsAllowed)

\* the report composed for a subject, one line of each form of the
\* template: the title, a blank line, a section heading, a list item, a
\* subsection heading and a numbered step
ReportText(name, code) ==
    <<"#", " ">> \o name \o <<" ">> \o code \o <<NL, NL>>
    \o <<"#", "#", " ", Yi, Dun, Yi, NL>>
    \o <<"-", " ", "*", "*", Yi, "*", "*", " ">> \o name \o <<NL>>
    \o <<"#", "#", "#", " ", "2", ".", "1", " ", Yi, NL>>
    \o <<"1", ".", " ", "*", "*", Yi, "*", "*", FwColon, Yi, NL>>

\* the kinds of analysis_content, one text of each: a composed report, an
\* empty text, a blank text, a text with characters outside the allow-list,
\* and None
ContentKinds ==
    {ReportText(<<"a">>, <<"b">>), <<>>, <<" ", NL>>,
     <<"<", Yi, Dun, "a", NL, Bullet, " ", "a">>, None}

\* Paragraph(text, style) parses text as markup and raises on a tag that
\* is never closed
BadMarkup(text) == \E i \in 1..Len(text) : text[i] = "<"

\* no buffer: the call raised instead of returning
NoBuffer == [kind |-> "none", head |-> "", empty |-> TRUE, pos |-> "start"]

\* a BytesIO after seek(0): the kind of document written to it and its
\* first four bytes
Buffer(kind, head) ==
    [kind |-> kind, head |-> head, empty |-> FALSE, pos |-> "start"]

\* the try block: the steps run, in order, until one raises
FullRender(company_name, stock_code, F) ==
    IF "full_setup" \in F
    THEN [ok |-> FALSE, trace |-> <<"full_setup">>]
    ELSE IF "full_elements" \in F \/ BadMarkup(company_name) \/ BadMarkup(stock_code)
    THEN [ok |-> FALSE, trace |-> <<"full_setup", "full_elements">>]
    ELSE IF "full_build" \in F
    THEN [ok |-> FALSE, trace |-> <<"full_setup", "full_elements", "full_build">>]
    ELSE [ok |-> TRUE, trace |-> <<"full_setup", "full_elements", "full_build">>]

\* the except block: only fallback_doc.build is inside a try of its own
FallbackRender(company_name, stock_code, F) ==
    IF "fb_setup" \in F
    THEN [raised |-> TRUE, buffer |-> NoBuffer, trace |-> <<"fb_setup">>]
    ELSE IF "fb_elements" \in F \/ BadMarkup(company_name) \/ BadMarkup(stock_code)
    THEN [raised |-> TRUE, buffer |-> NoBuffer,
          trace |-> <<"fb_setup", "fb_elements">>]
    ELSE IF "fb_build" \in F
    THEN [raised |-> FALSE, buffer |-> Buffer("fixed", "%PDF"),
          trace |-> <<"fb_setup", "fb_elements", "fb_build", "fixed_bytes">>]
    ELSE [raised |-> FALSE, buffer |-> Buffer("minimal", "%PDF"),
          trace |-> <<"fb_setup", "fb_elements", "fb_build">>]

\* the except block entered whatever the try block did
NeedsFallbackAlways(full) == TRUE

\* whether the except block runs: the try block raised
NeedsFallback(full) == ~full.ok

\* the text substituted for a None or blank analysis_content
DefaultContent(company_name, stock_code) ==
    <<"#", " ">> \o company_name \o <<" ", "a", Yi, NL, NL>>
    \o <<"#", "#", " ", Yi, NL>>
    \o <<"-", " ", Yi, FwColon>> \o stock_code \o <<NL>>
    \o <<"-", " ", Yi, FwColon, Yi, "a", Yi>>

\* analysis_content after the test of lines 316-317
SafeContent(analysis_content, company_name, stock_code) ==
    IF analysis_content = None \/ strip(analysis_content) = <<>>
    THEN DefaultContent(company_name, stock_code)
    ELSE analysis_content

\* clean_content: the filter, then the three heading markers removed
CleanContent(content) ==
    replace(replace(replace(re_sub(content), <<"#", " ">>),
                    <<"#", "#", " ">>), <<"#", "#", "#", " ">>)

\* the style the loop picks for a stripped line
StyleOf(line) ==
    IF line = <<>> THEN "Spacer"
    ELSE IF StartsWith(line, <<Yi, Dun>>) \/ StartsWith(line, <<"1", ".">>)
    THEN "Heading2"
    ELSE IF StartsWith(line, <<LB, Yi, RB>>) \/ StartsWith(line, <<"2", ".">>)
    THEN "Heading3"
    ELSE IF StartsWith(line, <<"-", " ">>) \/ StartsWith(line, <<Bullet, " ">>)
    THEN "ListItem"
    ELSE "Body"

\* the flowable appended for a line of clean_content
Flowable(line) == [style |-> StyleOf(line), text |-> line]

\* the flowables of the loop over clean_content.split('\n')
Flowables(lines) == [i \in 1..Len(lines) |-> Flowable(strip(lines[i]))]

\* the flowables the try block lays out between the title and the footer
LaidOutLines(analysis_content, company_name, stock_code) ==
    Flowables(split(CleanContent(
        SafeContent(analysis_content, company_name, stock_code))))

\* the result of the two blocks together
RenderOutcome(lines, full, fb) ==
    IF NeedsFallback(full)
    THEN [raised |-> fb.raised, buffer |-> fb.buffer,
          trace |-> full.trace \o fb.trace, lines |-> <<>>]
    ELSE [raised |-> FALSE, buffer |-> Buffer("full", "%PDF"),
          trace |-> full.trace, lines |-> lines]

\* the whole function; the steps of F raise
generate_pdf_report(analysis_content, company_name, stock_code, F) ==
    RenderOutcome(LaidOutLines(analysis_content, company_name, stock_code),
                  FullRender(company_name, stock_code, F),
                  FallbackRender(company_name, stock_code, F))

-----------------------------------------------------------------------------
(* display_company_details: the analysis and export part.                  *)

\* the steps of the export that may raise
ExportSteps == {"download", "fb_download"}

\* the buffer of the except branch of the export: b"PDF report content"
BasicBuffer == Buffer("basic", "PDF ")

\* the export block: the documents handed to st.download_button and
\* whether an exception leaves the function
Export(analysis, render, F) ==
    IF ~render.raised /\ "download" \notin F
    THEN [metrics |-> analysis, pdf |-> render,
          offered |-> {render.buffer}, raised |-> FALSE]
    ELSE IF "fb_download" \notin F
    THEN [metrics |-> analysis, pdf |-> render,
          offered |-> {BasicBuffer}, raised |-> FALSE]
    ELSE [metrics |-> analysis, pdf |-> render,
          offered |-> {}, raised |-> TRUE]

\* the result of display_company_details(r) for a record r: the metrics
\* shown, the render outcome and the export
display_company_details(r, F) ==
    Export(generate_esg_analysis(r),
           generate_pdf_report(ReportText(r.name, r.code), r.name, r.code, F), F)

-----------------------------------------------------------------------------
(* The inputs drawn.                                                       *)

\* the longest subject name and identifier handed to the renderer directly
MaxNameLen == 2

\* the non-empty sequences of at most n records of R
Datasets(R, n) == UNION {[1..k -> R] : k \in 1..n}

\* a record whose year cells are all present, with the default score
PlainRecord(name, code) ==
    [name |-> name, code |-> code,
     rating |-> [y \in SupportedYears |-> "AA"],
     quant |-> [y \in SupportedYears |-> DefaultQuant]]

\* names without brackets, and names that carry a bracketed part
PlainNames == {<<"a">>, <<"b">>}

BracketNames == {n \o <<LB>> \o c \o <<RB>> : n \in PlainNames, c \in PlainNames}

Codes == {<<"a">>, <<"b">>}

ResolveRecords ==
    {PlainRecord(n, c) : n \in PlainNames \cup BracketNames, c \in Codes}

\* the selections handed to the resolver: the sentinel, the keys offered
\* for this Dataset, the keys of the other records, and free text
Selections ==
    {Sentinel} \cup {company_list[i] : i \in 1..Len(company_list)}
               \cup {SelectionKey(r) : r \in ResolveRecords}
               \cup StrUpTo({"a", "b", LB, RB}, MaxSelLen)

\* the records of the metrics engine: every choice of year columns and of
\* the cells under them
MetricsRecords(rc, qc) ==
    {[name |-> <<"a">>, code |-> <<"b">>, rating |-> rt, quant |-> qt] :
        rt \in [rc -> RatingCells], qt \in [qc -> QuantCells]}

\* the dict of the emergency handler: no year columns at all
sample_data == [name |-> <<"b">>, code |-> <<"a">>, rating |-> <<>>, quant |-> <<>>]

\* the records of the application runs: a plain name, a name with an
\* unclosed tag and a name with brackets
AppRecords ==
    {PlainRecord(n, <<"a">>) : n \in {<<"a">>, <<"<">>, <<"a", LB, "b", RB>>}}

NoMetrics == [none |-> TRUE]

NoPdf == [none |-> TRUE]

NoArgs == [none |-> TRUE]

\* the state of a run before anything ran
Idle ==
    /\ selected_company = <<>>
    /\ company_data = NoRow
    /\ signals = {}
    /\ metrics = NoMetrics
    /\ faults = {}
    /\ render_args = NoArgs
    /\ pdf = NoPdf
    /\ offered = {}

\* load_data: the globals of a Dataset d with the given year columns
Loaded(d, rc, qc) ==
    /\ df = d
    /\ years = SupportedYears
    /\ rating_columns = rc
    /\ quant_columns = qc
    /\ company_list = CompanyList(d)


-----------------------------------------------------------------------------
(* The resolver on its own.                                                *)

InitResolve ==
    /\ \E d \in Datasets(ResolveRecords, MaxRecords) :
          Loaded(d, SupportedYears, SupportedYears)
    /\ pc = "ready"
    /\ Idle

\* one call of get_company_by_selection
Resolve(sel) ==
    /\ pc = "ready"
    /\ LET res == get_company_by_selection(sel)
       IN  /\ company_data' = res.row
           /\ signals' = IF res.warning THEN {"fallback_warning"} ELSE {}
    /\ selected_company' = sel
    /\ pc' = "resolved"
    /\ UNCHANGED <<dataset_vars, metrics, faults, render_args, pdf, offered>>

NextResolve == \E sel \in Selections : Resolve(sel)

SpecResolve == InitResolve /\ [][NextResolve]_vars

-----------------------------------------------------------------------------
(* The metrics engine on its own.                                          *)

InitMetrics ==
    /\ \E norating \in SUBSET SupportedYears, noquant \in SUBSET SupportedYears :
          \E r \in MetricsRecords(SupportedYears \ norating,
                                   SupportedYears \ noquant) :
              Loaded(<<r>>, SupportedYears \ norating, SupportedYears \ noquant)
    /\ pc = "ready"
    /\ Idle

\* one call of generate_esg_analysis on the record
Analyse ==
    /\ pc = "ready"
    /\ company_data' = 1
    /\ metrics' = generate_esg_analysis(df[1])
    /\ pc' = "analysed"
    /\ UNCHANGED <<dataset_vars, selected_company, signals, faults,
                   render_args, pdf, offered>>

NextMetrics == Analyse

SpecMetrics == InitMetrics /\ [][NextMetrics]_vars

-----------------------------------------------------------------------------
(* The renderer on its own.                                                *)

RenderNames == StrUpTo({"a", "<"}, MaxNameLen)

InitRender ==
    /\ Loaded(<<PlainRecord(<<"a">>, <<"b">>)>>, SupportedYears, SupportedYears)
    /\ pc = "ready"
    /\ selected_company = <<>>
    /\ company_data = NoRow
    /\ signals = {}
    /\ metrics = NoMetrics
    /\ faults = {}
    /\ \E c \in ContentKinds, n \in RenderNames, k \in RenderNames :
          render_args = [analysis_content |-> c, company_name |-> n,
                         stock_code |-> k]
    /\ pdf = NoPdf
    /\ offered = {}

\* one call of generate_pdf_report in which the steps of F raise
Render(F) ==
    /\ pc = "ready"
    /\ faults' = F
    /\ pdf' = generate_pdf_report(render_args.analysis_content,
                                  render_args.company_name,
                                  render_args.stock_code, F)
    /\ pc' = "rendered"
    /\ UNCHANGED <<dataset_vars, selected_company, company_data, signals,
                   metrics, render_args, offered>>

NextRender == \E F \in SUBSET RenderSteps : Render(F)

SpecRender == InitRender /\ [][NextRender]_vars

-----------------------------------------------------------------------------
(* The layout of the renderer: every short text as analysis_content.       *)

\* the longest free-form analysis_content
MaxTextLen == 3

\* the characters of a free-form analysis_content: those of the six
\* prefixes, a letter, the heading marker, the blank and the newline
LayoutChars ==
    {Yi, Dun, Bullet, "1", "2", ".", "-", " ", NL, LB, RB, "#", "a"}

LayoutTexts == ContentKinds \cup StrUpTo(LayoutChars, MaxTextLen)

\* a plain subject name and one with a character outside the allow-list
LayoutNames == {<<"a">>, <<"a", Dun>>}

InitLayout ==
    /\ Loaded(<<PlainRecord(<<"a">>, <<"b">>)>>, SupportedYears, SupportedYears)
    /\ pc = "ready"
    /\ selected_company = <<>>
    /\ company_data = NoRow
    /\ signals = {}
    /\ metrics = NoMetrics
    /\ faults = {}
    /\ \E c \in LayoutTexts, n \in LayoutNames :
          render_args = [analysis_content |-> c, company_name |-> n,
                         stock_code |-> <<"b">>]
    /\ pdf = NoPdf
    /\ offered = {}

NextLayout == \E F \in SUBSET {"full_build"} : Render(F)

SpecLayout == InitLayout /\ [][NextLayout]_vars

-----------------------------------------------------------------------------
(* The application: a script run, then the next one.                       *)

Init ==
    /\ \E d \in Datasets(AppRecords, MaxRecords) :
          Loaded(d, SupportedYears, SupportedYears)
    /\ pc = "start"
    /\ Idle

\* main(): company_list is assigned inside main, so it is a local name of
\* main, and the test that reads it before the assignment raises
\* UnboundLocalError; nothing after it in main runs
Main ==
    /\ pc = "start"
    /\ pc' = "emergency"
    /\ signals' = signals \cup {"system_error"}
    /\ UNCHANGED <<dataset_vars, selected_company, company_data, metrics,
                   faults, render_args, pdf, offered>>

\* the state after a call of display_company_details on record r
Displayed(r, d, failed_pc) ==
    /\ metrics' = d.metrics
    /\ render_args' = [analysis_content |-> ReportText(r.name, r.code),
                       company_name |-> r.name,
                       stock_code |-> r.code]
    /\ pdf' = d.pdf
    /\ offered' = offered \cup d.offered
    /\ signals' = signals \cup
                    (IF d.offered = {BasicBuffer} \/ d.raised
                     THEN {"export_error"} ELSE {})
    /\ pc' = IF d.raised THEN failed_pc ELSE "done"

\* the options built by list.insert(0, sentinel), which changes the list
\* in place
OptionsInPlace(list) ==
    [options |-> <<Sentinel>> \o list, company_list |-> <<Sentinel>> \o list]

\* [sentinel] + company_list: the options of the selection control, a new
\* list, and company_list after the expression, which is left as it was
Options(list) ==
    [options |-> <<Sentinel>> \o list, company_list |-> list]

\* the strings the selection control can return
Offered(list) ==
    {Options(list).options[i] : i \in 1..Len(Options(list).options)}

\* the except block of the program entry, its try: the selection control
\* over the sentinel and company_list, then the resolver
EmergencySelect(sel) ==
    /\ pc = "emergency"
    /\ sel \in Offered(company_list)
    /\ company_list' = Options(company_list).company_list
    /\ selected_company' = sel
    /\ IF sel = Sentinel
       THEN /\ pc' = "done"
            /\ UNCHANGED <<company_data, signals>>
       ELSE LET res == get_company_by_selection(sel)
            IN  /\ company_data' = res.row
                /\ signals' = signals \cup
                       (IF res.warning THEN {"fallback_warning"} ELSE {})
                /\ pc' = "details"
    /\ UNCHANGED <<df, years, rating_columns, quant_columns, metrics, faults,
                   render_args, pdf, offered>>

\* display_company_details(company_data) inside that try; the steps of F
\* raise
DisplayCompanyDetails(F) ==
    /\ pc = "details"
    /\ faults' = F
    /\ Displayed(df[company_data], display_company_details(df[company_data], F),
                 "except")
    /\ UNCHANGED <<dataset_vars, selected_company, company_data>>

\* the inner except: display_company_details(sample_data)
DisplaySample(F) ==
    /\ pc = "except"
    /\ faults' = F
    /\ Displayed(sample_data, display_company_details(sample_data, F), "crashed")
    /\ UNCHANGED <<dataset_vars, selected_company, company_data>>

\* the next interaction reruns the script; load_data is cached
Rerun ==
    /\ pc \in {"done", "crashed"}
    /\ pc' = "start"
    /\ selected_company' = <<>>
    /\ company_data' = NoRow
    /\ signals' = {}
    /\ metrics' = NoMetrics
    /\ faults' = {}
    /\ render_args' = NoArgs
    /\ pdf' = NoPdf
    /\ offered' = {}
    /\ UNCHANGED dataset_vars

Next ==
    \/ Main
    \/ \E sel \in Offered(company_list) : EmergencySelect(sel)
    \/ \E F \in SUBSET (RenderSteps \cup ExportSteps) : DisplayCompanyDetails(F)
    \/ \E F \in SUBSET (RenderSteps \cup ExportSteps) : DisplaySample(F)
    \/ Rerun

Spec == Init /\ [][Next]_vars


-----------------------------------------------------------------------------
(* Properties of the renderer, under SpecRender.                           *)

\* the try block of the renderer raises: one of its steps fails, or the
\* title Paragraph refuses the subject name or identifier
FullFails ==
    \/ faults \cap {"full_setup", "full_elements", "full_build"} # {}
    \/ BadMarkup(render_args.company_name)
    \/ BadMarkup(render_args.stock_code)

FallbackSteps == {"fb_setup", "fb_elements", "fb_build", "fixed_bytes"}

Attempted(step) == \E i \in 1..Len(pdf.trace) : pdf.trace[i] = step

\* C1: generate_pdf_report never raises and always returns a non-empty
\* buffer positioned at its start, for every content, subject name and
\* identifier, and whichever construction or build step fails, those of the
\* fallback handler included.
C1_RenderNeverRaises ==
    pc = "rendered" =>
        /\ ~pdf.raised
        /\ pdf.buffer # NoBuffer
        /\ ~pdf.buffer.empty
        /\ pdf.buffer.pos = "start"

\* C9: the three tiers are tried in order and the result identifies the
\* tier: the full document whenever the full render completes; the minimal
\* document only when the full render failed and the minimal build
\* succeeded; the fixed bytes with the PDF signature only when the full
\* render and the minimal build both failed; no step of the fallback is
\* attempted after a successful full render.
C9_TiersInOrder ==
    pc = "rendered" =>
        /\ ~FullFails =>
              /\ ~pdf.raised
              /\ pdf.buffer.kind = "full"
              /\ \A st \in FallbackSteps : ~Attempted(st)
        /\ ~pdf.raised =>
              /\ pdf.buffer.kind \in {"full", "minimal", "fixed"}
              /\ pdf.buffer.kind = "full" => ~FullFails
              /\ pdf.buffer.kind = "minimal" =>
                    FullFails /\ Attempted("fb_build") /\ "fb_build" \notin faults
              /\ pdf.buffer.kind = "fixed" =>
                    /\ FullFails /\ Attempted("fb_build") /\ "fb_build" \in faults
                    /\ pdf.buffer.head = "%PDF"
        /\ \A i, j \in 1..Len(pdf.trace) :
              (pdf.trace[i] \in FallbackSteps /\ pdf.trace[j] \notin FallbackSteps)
                  => j < i

\* a run that ends in the third tier
C9_Witness ==
    /\ pc = "rendered"
    /\ ~pdf.raised
    /\ pdf.buffer.kind = "fixed"
    /\ "full_build" \in faults

-----------------------------------------------------------------------------
(* Properties of the layout, under SpecLayout.                             *)

\* the try block completed: the document returned is the full one
FullRendered == pc = "rendered" /\ ~pdf.raised /\ pdf.buffer.kind = "full"

\* analysis_content is a Report: neither None nor blank
HasReport ==
    /\ render_args.analysis_content # None
    /\ strip(render_args.analysis_content) # <<>>

\* the lines of the Report, each without its surrounding whitespace
ReportLines ==
    LET ls == split(render_args.analysis_content)
    IN  [i \in 1..Len(ls) |-> strip(ls[i])]

\* the style the prefix rules give a line, the first matching rule winning
PrefixStyle(line) ==
    CASE line = <<>> -> "Spacer"
      [] StartsWith(line, <<Yi, Dun>>) \/ StartsWith(line, <<"1", ".">>)
            -> "Heading2"
      [] StartsWith(line, <<LB, Yi, RB>>) \/ StartsWith(line, <<"2", ".">>)
            -> "Heading3"
      [] StartsWith(line, <<"-", " ">>) \/ StartsWith(line, <<Bullet, " ">>)
            -> "ListItem"
      [] OTHER -> "Body"

\* the line begins with one of the six prefixes, or is blank
HasPrefix(line) == PrefixStyle(line) # "Body"

\* C11: in the full render every Report line is styled by the first
\* matching prefix rule: blank gives a spacer, the ideograph-and-comma
\* prefix or "1." Heading-2, else the bracketed ideograph or "2." Heading-3,
\* else "- " or the bullet ListItem, else Body; each of the six prefixes
\* selects its style for the Report lines that start with it.
C11_PrefixSelectsStyle ==
    (FullRendered /\ HasReport) =>
        /\ Len(pdf.lines) = Len(ReportLines)
        /\ \A i \in 1..Len(pdf.lines) :
              /\ pdf.lines[i].style = PrefixStyle(pdf.lines[i].text)
              /\ HasPrefix(ReportLines[i]) =>
                    pdf.lines[i].style = PrefixStyle(ReportLines[i])

\* C12: in the full render the filter runs before classification and
\* layout: every line laid out from analysis_content, and from the default
\* text that replaces a None or blank analysis_content, holds only
\* characters of the allow-list, and is classified as filtered.
C12_LinesFiltered ==
    FullRendered =>
        /\ \A i \in 1..Len(pdf.lines) :
              /\ \A j \in 1..Len(pdf.lines[i].text) :
                    pdf.lines[i].text[j] \in AllowList
              /\ pdf.lines[i].style = PrefixStyle(pdf.lines[i].text)
        /\ Len(pdf.lines) =
              IF HasReport THEN Len(ReportLines)
              ELSE Len(split(DefaultContent(render_args.company_name,
                                            render_args.stock_code)))

\* the default text laid out for a subject whose name holds a character
\* outside the allow-list
C12_Witness ==
    /\ FullRendered
    /\ ~HasReport
    /\ \E j \in 1..Len(render_args.company_name) :
          render_args.company_name[j] \notin AllowList
    /\ Len(pdf.lines) > 1
    /\ pdf.lines[1].style = "Body"
    /\ pdf.lines[1].text # <<>>

-----------------------------------------------------------------------------
(* Properties of the resolver, under SpecResolve.                          *)

Resolved ==
    pc = "resolved" /\ selected_company # <<>> /\ selected_company # Sentinel

Warned == "fallback_warning" \in signals

\* the selection has a bracketed portion
HasBracket == re_search(selected_company).matched

\* the bracketed identifier equals the identifier of a Record
MatchesIdentifier ==
    HasBracket /\
    \E i \in 1..Len(df) : df[i].code = re_search(selected_company).group

\* the text before the first bracket (the whole selection when there is
\* none) is the display_name of a Record
MatchesName == \E i \in 1..Len(df) : df[i].name = split_first(selected_company)

\* the selection is the SelectionKey of a Record
MatchesKey == \E i \in 1..Len(df) : SelectionKey(df[i]) = selected_company

FirstByName ==
    Min({i \in 1..Len(df) : df[i].name = split_first(selected_company)})

FirstByKey == Min({i \in 1..Len(df) : SelectionKey(df[i]) = selected_company})

\* C2 as stated: a selection matching no identifier, display_name or
\* SelectionKey gets the first Record of the Dataset and the fallback
\* warning; a selection matched by identifier, name or SelectionKey gets no
\* warning.
C2_Original ==
    Resolved =>
        IF ~MatchesIdentifier /\ ~MatchesName /\ ~MatchesKey
        THEN company_data = 1 /\ Warned
        ELSE ~Warned

\* C2 as amended: the name counts only for a selection without a bracketed
\* portion.  A selection matching no identifier, no SelectionKey and (when
\* it has no bracketed portion) no display_name gets the first Record of
\* the Dataset, in Dataset order, and the fallback warning; every other
\* selection gets no warning.
C2_FallbackWarning ==
    Resolved =>
        IF ~MatchesIdentifier /\ ~(~HasBracket /\ MatchesName) /\ ~MatchesKey
        THEN company_data = 1 /\ Warned
        ELSE ~Warned

\* a fallback in a Dataset whose first Record is not the first entry of
\* the sorted selection list
C2_Witness ==
    /\ Resolved
    /\ Warned
    /\ company_data = 1
    /\ company_list[1] # SelectionKey(df[1])

\* C3 as stated: when the bracketed identifier equals no Record's
\* identifier, the text before the first bracket is matched against
\* display_name, and the first Record with that display_name is returned,
\* before the SelectionKey match and the fallback.
C3_Original ==
    (Resolved /\ HasBracket /\ ~MatchesIdentifier /\ MatchesName)
        => company_data = FirstByName /\ ~Warned

\* C3 as amended: the display_name match is tried only when the selection
\* has no bracketed portion, and then before the SelectionKey match and the
\* fallback; after a bracketed identifier that equals no Record's
\* identifier the resolver goes on to the SelectionKey match and then to
\* the first-record fallback.
C3_NameOnlyWithoutBracket ==
    Resolved =>
        /\ (~HasBracket /\ MatchesName) => company_data = FirstByName /\ ~Warned
        /\ (HasBracket /\ ~MatchesIdentifier) =>
              IF MatchesKey
              THEN company_data = FirstByKey /\ ~Warned
              ELSE company_data = 1 /\ Warned

\* a bracketed identifier that matches nothing, before a text that is the
\* display_name of a Record other than the one returned
C3_Witness ==
    /\ Resolved
    /\ HasBracket
    /\ ~MatchesIdentifier
    /\ MatchesName
    /\ company_data # FirstByName

-----------------------------------------------------------------------------
(* Properties of the metrics engine, under SpecMetrics.                    *)

\* the score cell of the record in a year that has a score column
CellOf(y) == df[1].quant[y]

\* the score of a year is present, numeric and not negative
ValidScore(y) ==
    y \in quant_columns /\ CellOf(y).kind = "num" /\ CellOf(y).tenths >= 0

ValidYears == {y \in years : ValidScore(y)}

\* the valid scores in chronological order
ValidScores ==
    LET ys == YearSeq(ValidYears)
    IN  [i \in 1..Len(ys) |-> CellOf(ys[i]).tenths \div 10]

\* no supported year has a score that is present, numeric and positive
NoPositiveScore ==
    \A y \in years :
        \/ y \notin quant_columns
        \/ CellOf(y).kind # "num"
        \/ CellOf(y).tenths <= 0

\* C4: a Record in which no supported year yields a valid score (year
\* columns present but every value missing, non-numeric, zero or negative
\* included) gets exactly average 3, max 4, min 2, latest score 3, latest
\* year the last supported year, trend Stable.
C4_FallbackMetricsExact ==
    (pc = "analysed" /\ NoPositiveScore) =>
        /\ metrics.avg_num = 3 * metrics.avg_den
        /\ metrics.max_value = 4
        /\ metrics.min_value = 2
        /\ metrics.latest_value = 3
        /\ metrics.latest_year = LastYear
        /\ metrics.trend = "Stable"

\* C5: with at least one valid score, latest_year is the last supported
\* year whose score is valid and latest_score is that year's score.
C5_LatestIsLastValid ==
    (pc = "analysed" /\ ValidYears # {}) =>
        /\ metrics.latest_year = Max(ValidYears)
        /\ metrics.latest_value = CellOf(Max(ValidYears)).tenths \div 10

\* C6: the scores that enter average, max and min are exactly those of the
\* supported years whose score is present, numeric and not negative.
C6_AggregatesOverValidYears ==
    pc = "analysed" =>
        /\ metrics.quant_values = ValidScores
        /\ ValidYears # {} =>
              /\ metrics.avg_num * Len(ValidScores)
                    = Sum(ValidScores) * metrics.avg_den
              /\ metrics.max_value = SeqMax(ValidScores)
              /\ metrics.min_value = SeqMin(ValidScores)

\* C7: trend is Rising iff there are at least 3 valid scores and the last
\* is greater than the first, Falling iff at least 3 and the last is less
\* than the first, Stable otherwise.
C7_TrendFirstLast ==
    pc = "analysed" =>
        metrics.trend =
            IF Len(ValidScores) >= 3 /\ ValidScores[Len(ValidScores)] > ValidScores[1]
            THEN "Rising"
            ELSE IF Len(ValidScores) >= 3 /\ ValidScores[Len(ValidScores)] < ValidScores[1]
            THEN "Falling"
            ELSE "Stable"

\* C8: the tier is one of the four, fixed by the unrounded average with
\* inclusive lower bounds taken top-down, and the cycle is the one mapped
\* from the tier.
C8_TierFromAverage ==
    pc = "analysed" =>
        /\ metrics.avg_den > 0
        /\ metrics.level \in {"Excellent", "Good", "Moderate", "NeedsImprovement"}
        /\ metrics.level = "Excellent" <=> metrics.avg_num >= 5 * metrics.avg_den
        /\ metrics.level = "Good" <=>
              /\ metrics.avg_num >= 4 * metrics.avg_den
              /\ metrics.avg_num < 5 * metrics.avg_den
        /\ metrics.level = "Moderate" <=>
              /\ metrics.avg_num >= 3 * metrics.avg_den
              /\ metrics.avg_num < 4 * metrics.avg_den
        /\ metrics.level = "NeedsImprovement" <=>
              metrics.avg_num < 3 * metrics.avg_den
        /\ metrics.cycle =
              CASE metrics.level = "Excellent" -> "6-12"
                [] metrics.level \in {"Good", "Moderate"} -> "12-24"
                [] OTHER -> "24-36"

\* an average that sits exactly on the lower bound of Good
C8_Witness ==
    /\ pc = "analysed"
    /\ metrics.level = "Good"
    /\ metrics.avg_num = 4 * metrics.avg_den
    /\ Len(metrics.quant_values) >= 2

\* the identifiers of the Dataset are pairwise distinct
DistinctIdentifiers ==
    \A i, j \in 1..Len(df) : df[i].code = df[j].code => i = j

\* C14: round trip of the selection list.  In a Dataset whose identifiers
\* are pairwise distinct, resolving the SelectionKey offered for a Record
\* returns that Record and emits no fallback warning, also when the
\* display_name of the Record holds full-width brackets.
C14_RoundTrip ==
    (Resolved /\ DistinctIdentifiers) =>
        \A i \in 1..Len(df) :
            SelectionKey(df[i]) = selected_company =>
                company_data = i /\ ~Warned

-----------------------------------------------------------------------------
(* Properties of the application, under Spec.                              *)

\* C13: after the load the Dataset is read-only: no step of a run (entry,
\* selection and resolve, analysis, render, export, detail display, the
\* handlers of their exceptions, the next run) changes the Records, their
\* order, the year columns or the SelectionKey list.
C13_DatasetReadOnly ==
    [][/\ df' = df
       /\ company_list' = company_list
       /\ years' = years
       /\ rating_columns' = rating_columns
       /\ quant_columns' = quant_columns]_vars

\* a run over a Dataset of several Records in which the renderer raised
\* and the export took its exception branch
C13_Witness ==
    /\ pc = "done"
    /\ Len(df) > 1
    /\ company_data # NoRow
    /\ pdf # NoPdf
    /\ pdf.raised
    /\ offered = {BasicBuffer}
    /\ company_list = CompanyList(df)

\* C15: in a run over a loaded, non-empty SelectionKey list main reaches
\* its selection control and dispatches the selection without raising: the
\* handler of the program entry is never entered and no system error is
\* signalled; after the sentinel no export is offered.
C15_MainDispatches ==
    Len(company_list) > 0 =>
        /\ pc \notin {"emergency", "except", "crashed"}
        /\ "system_error" \notin signals
        /\ (pc = "done" /\ selected_company = Sentinel) => offered = {}


\* C10: every document offered for export is the output of one of the three
\* tiers of the renderer and carries the PDF signature, also in the runs in
\* which the renderer or the download step fails.
C10_OfferedIsRendered ==
    \A b \in offered :
        /\ b.kind \in {"full", "minimal", "fixed"}
        /\ b.head = "%PDF"

=============================================================================
